---- MODULE Spec2Model ----
(***************************************************************************)
(* lexington.py -- an OPML to HTML processor.                              *)
(*                                                                         *)
(* The model covers the traversal of the <body> of an OPML document        *)
(* (Node.__init__ / Node.process), the classification of outline elements  *)
(* (render_node, skip_node, index_node), the destination path of a node    *)
(* (Node.identifier, Node.path, Node.safe_filename), the generator behind  *)
(* the listings (iter_index_children, Node.next, Index.next), the files    *)
(* written by OPML.render_root and Node.render, the text a page is given   *)
(* (Node.body) and the exceptions that end a run.                          *)
(*                                                                         *)
(* Outline elements are numbered 1..n in document order (the order of      *)
(* their start tags); 0 is the <body> element.  Strings are sequences of   *)
(* one-character strings.                                                  *)
(***************************************************************************)
EXTENDS Integers, Sequences, FiniteSets, TLC

VARIABLES
    parent,          \* parent[i]: the element getparent() returns for outline i
    attrib,          \* attrib[i]: the attributes of outline i
    fault,           \* the rendering the environment lets fail, and how
    nested,          \* the templates iterate the nodes a listing gives them
    pc,              \* where the run is: "start", "init", "root", "process",
                     \* "render", "done", "error"
    raised,          \* the exception that ended the run
    cur,             \* the element the current Node object wraps
    visited,         \* the elements a processing Node was constructed for, in order
    rendered,        \* the writes of Node.render, in order: [node, fname]
    files,           \* the output directory: destination path -> writer of the content
    root_renders,    \* how often OPML.render_root wrote its file
    depth,           \* pending Node.__init__ / Node.process frames
    index_children,  \* the generator of the render context being rendered
    yielded,         \* what that generator has yielded so far
    fragments,       \* what self.body() yields for the node being rendered
    entries,         \* the Nodes the listings of this rendering have returned:
                     \* [gen, out], the generator of each and what it yielded
    generators       \* the generators those Nodes were given

vars == <<parent, attrib, fault, nested, pc, raised, cur, visited, rendered,
          files, root_renders, depth, index_children, yielded, fragments,
          entries, generators>>

\* what a run is given: the document and the behaviour of the environment
\* and of the templates
inputs == <<parent, attrib, fault, nested>>

-----------------------------------------------------------------------------
(* Bounds of the model.                                                    *)

MaxNodes == 4

MaxPathNodes == 3

MaxLiveNodes == 3

MaxErrNodes == 3

MaxFaultNodes == 4

MaxBodyNodes == 4

MaxListNodes == 4

\* the Nodes returned by listings that one template goes on to iterate
MaxEntries == 3

-----------------------------------------------------------------------------
(* Values.                                                                 *)

\* <body>, the root of the outline elements
Body == 0

\* Python's None: no such element, no such attribute
None == -1

\* sys.setrecursionlimit(3000)
RecursionLimit == 3000

\* frames below the first Node.__init__: the module and OPML.render
BaseFrames == 2

\* Node.__init__ and Node.process: the frames one visited element keeps pending
FramesPerVisit == 2

\* el.get(key) of an attribute the element does not carry
Absent == <<"<absent>">>

\* the exceptions a run can end with; as the result of an operator, the
\* exception the function raises instead of returning
NoException    == <<"<no exception>">>
AssertionError == <<"AssertionError">>
AttributeError == <<"AttributeError">>
IndexError     == <<"IndexError">>
TypeError      == <<"TypeError">>
RuntimeError   == <<"RuntimeError">>
TemplateError  == <<"TemplateError">>
IOError        == <<"IOError">>

Exceptions == {AssertionError, AttributeError, IndexError, TypeError,
               RuntimeError, TemplateError, IOError}

\* the content of a file that was opened for writing and never written
Truncated == -2

\* an environment in which every rendering and every write succeeds
NoFault == [at |-> None, kind |-> "none"]

T_outline == <<"o","u","t","l","i","n","e">>
T_link    == <<"l","i","n","k">>
T_true    == <<"t","r","u","e">>
T_false   == <<"f","a","l","s","e">>

\* Node.render_nodetypes
render_nodetypes == { T_outline }

TX_Hello == <<"H","e","l","l","o">>
TX_Note  == <<"#","n","o","t","e">>
TX_HiAll == <<"H","i"," ","a","l","l","!">>
TX_Links == <<"L","i","n","k","s">>
TX_Marks == <<"?","!">>
TX_Rule    == <<"<","r","u","l","e",">">>
TX_RuleEnd == <<"<","/","r","u","l","e",">">>
NM_Intro == <<"I","n","t","r","o">>

\* attribute sets of the outline elements the documents are made of
PlainOutline   == [text |-> TX_Hello, type |-> Absent,    isComment |-> Absent, name |-> Absent]
RenderOutline  == [text |-> TX_Hello, type |-> T_outline, isComment |-> Absent, name |-> Absent]
CommentOutline == [text |-> TX_Hello, type |-> Absent,    isComment |-> T_true, name |-> Absent]
HashOutline    == [text |-> TX_Note,  type |-> T_outline, isComment |-> Absent, name |-> Absent]
WordsOutline   == [text |-> TX_HiAll, type |-> T_outline, isComment |-> Absent, name |-> Absent]
LinkOutline    == [text |-> TX_Links, type |-> T_link,    isComment |-> Absent, name |-> Absent]
NamedOutline   == [text |-> TX_Hello, type |-> Absent,    isComment |-> Absent, name |-> NM_Intro]

\* outlines without a name and without a text an identifier can be made of
EmptyTextOutline == [text |-> <<>>,     type |-> T_outline, isComment |-> Absent, name |-> Absent]
BlankOutline     == [text |-> <<>>,     type |-> Absent,    isComment |-> Absent, name |-> Absent]
NoWordOutline    == [text |-> TX_Marks, type |-> T_outline, isComment |-> Absent, name |-> Absent]
TextlessOutline  == [text |-> Absent,   type |-> T_outline, isComment |-> Absent, name |-> Absent]

ErrorOutlines ==
    {PlainOutline, RenderOutline, EmptyTextOutline, BlankOutline, NoWordOutline,
     TextlessOutline}

\* the outlines Node.body leaves out
RuleOutline    == [text |-> TX_Rule,    type |-> Absent, isComment |-> Absent, name |-> Absent]
RuleEndOutline == [text |-> TX_RuleEnd, type |-> Absent, isComment |-> Absent, name |-> Absent]

BodyOutlines == {RenderOutline, LinkOutline, RuleOutline, RuleEndOutline}

ListOutlines == {PlainOutline, RenderOutline}

FaultOutlines == {PlainOutline, RenderOutline, HashOutline}

TraversalOutlines ==
    {PlainOutline, RenderOutline, LinkOutline, CommentOutline, HashOutline}

\* a name next to a text without a word, and an empty name
NamedMarksOutline == [text |-> TX_Marks, type |-> T_outline, isComment |-> Absent, name |-> NM_Intro]
EmptyNameOutline  == [text |-> TX_HiAll, type |-> Absent,    isComment |-> Absent, name |-> <<>>]

PathOutlines ==
    {PlainOutline, RenderOutline, WordsOutline, LinkOutline, NamedOutline,
     NamedMarksOutline, EmptyNameOutline}

-----------------------------------------------------------------------------
(* The element tree (lxml).                                                *)

Nodes == DOMAIN parent

getparent(el) == parent[el]

\* the elements of a set of elements, in document order
SortedSeq(S) ==
    [k \in 1 .. Cardinality(S) |->
        CHOOSE x \in S : Cardinality({y \in S : y < x}) = k - 1]

\* the children of an element, in document order: list(el)
Children(el) == SortedSeq({i \in Nodes : parent[i] = el})

\* len(el)
len(el) == Len(Children(el))

\* el[0]
FirstChild(el) == Children(el)[1]

\* el.getnext(): the next sibling, or None
getnext(el) ==
    LET later == {i \in Nodes : parent[i] = parent[el] /\ i > el}
    IN  IF later = {} THEN None
        ELSE CHOOSE x \in later : \A y \in later : x <= y

\* el.iterancestors('outline'): the ancestors below <body>, nearest first
RECURSIVE iterancestors(_)
iterancestors(el) ==
    IF parent[el] = Body THEN <<>>
    ELSE <<parent[el]>> \o iterancestors(parent[el])

\* one step of el.iterdescendants(): the element after c in the subtree of
\* root, or None when the subtree is exhausted
RECURSIVE ClimbWithin(_, _)
ClimbWithin(root, c) ==
    IF c = root THEN None
    ELSE IF getnext(c) # None THEN getnext(c)
    ELSE ClimbWithin(root, parent[c])

NextDescendant(root, c) ==
    IF len(c) > 0 THEN FirstChild(c) ELSE ClimbWithin(root, c)

\* the numbering of the elements is the document order of a forest
WellFormed ==
    \A i \in Nodes :
        /\ parent[i] \in 0 .. (i - 1)
        /\ i > 1 => parent[i] \in {Body, i - 1} \cup
                        {iterancestors(i - 1)[k] : k \in 1 .. Len(iterancestors(i - 1))}

-----------------------------------------------------------------------------
(* Classification.                                                         *)

startswith(s, prefix) ==
    /\ Len(s) >= Len(prefix)
    /\ SubSeq(s, 1, Len(prefix)) = prefix

\* Node.render_node
render_node(el) == attrib[el].type \in render_nodetypes

\* skip_node without the test of the '#' marker
skip_node_CommentOnly(el) ==
    (IF attrib[el].isComment = Absent THEN T_false ELSE attrib[el].isComment) = T_true

\* Node.skip_node
skip_node(el) ==
    \/ (IF attrib[el].isComment = Absent THEN T_false ELSE attrib[el].isComment) = T_true
    \/ startswith(attrib[el].text, <<"#">>)

\* Node.skip_node raises AttributeError: el.get('text') is None and the test
\* of isComment did not decide
skip_node_raises(el) ==
    /\ (IF attrib[el].isComment = Absent THEN T_false ELSE attrib[el].isComment) # T_true
    /\ attrib[el].text = Absent

\* index_node without the render test: every node with children is descended
index_node_AnyParent(el) == len(el) > 0

\* index_node with the render test the wrong way round
index_node_RenderOnly(el) == len(el) > 0 /\ render_node(el)

\* index_node in Node.process
index_node(el) == len(el) > 0 /\ ~render_node(el)

-----------------------------------------------------------------------------
(* Identifiers and paths.                                                  *)

LowerCase == <<"a","e","h","i","k","l","n","o","r","s","t">>
UpperCase == <<"A","E","H","I","K","L","N","O","R","S","T">>
Digits    == {"0","1","2","3","4","5","6","7","8","9"}

Range(s) == {s[i] : i \in 1 .. Len(s)}

\* str.lower and str.upper of one character
lower(c) ==
    IF c \in Range(UpperCase)
    THEN LowerCase[CHOOSE i \in 1 .. Len(UpperCase) : UpperCase[i] = c]
    ELSE c

upper(c) ==
    IF c \in Range(LowerCase)
    THEN UpperCase[CHOOSE i \in 1 .. Len(LowerCase) : LowerCase[i] = c]
    ELSE c

\* the characters the pattern [^\w ] leaves in place
WordOrSpace(c) ==
    c \in Range(LowerCase) \cup Range(UpperCase) \cup Digits \cup {"_", " "}

\* str.split(): the maximal runs of characters that are not spaces
split(s) ==
    LET starts == {i \in 1 .. Len(s) : s[i] # " " /\ (i = 1 \/ s[i - 1] = " ")}
        ends   == {j \in 1 .. Len(s) : s[j] # " " /\ (j = Len(s) \/ s[j + 1] = " ")}
    IN  [k \in 1 .. Cardinality(starts) |->
            SubSeq(s, SortedSeq(starts)[k], SortedSeq(ends)[k])]

\* str.capitalize and str.lower of a word
capitalize(w) ==
    [i \in 1 .. Len(w) |-> IF i = 1 THEN upper(w[i]) ELSE lower(w[i])]

lowerword(w) == [i \in 1 .. Len(w) |-> lower(w[i])]

\* u''.join(ws)
concat(ws) ==
    LET upto[i \in 0 .. Len(ws)] == IF i = 0 THEN <<>> ELSE upto[i - 1] \o ws[i]
    IN  upto[Len(ws)]

\* _innerCase in Node.identifier: cleaned = re.sub('[^\w ]', '', s);
\* bits = map(str.capitalize, cleaned.split()); bits[0] = bits[0].lower();
\* u''.join(bits).  bits[0] of a text without a word raises IndexError.
innerCase(s) ==
    LET Cleaned == {SelectSeq(s, WordOrSpace)}
        Words   == {split(cleaned) : cleaned \in Cleaned}
        Slugs   == {IF words = <<>> THEN IndexError
                    ELSE concat([i \in 1 .. Len(words) |->
                                    IF i = 1 THEN lowerword(capitalize(words[i]))
                                    ELSE capitalize(words[i])]) : words \in Words}
    IN  CHOOSE slug \in Slugs : TRUE

\* identifier that looks at the text before the name
identifier_TextFirst(el) ==
    IF attrib[el].text # Absent /\ attrib[el].text # <<>>
    THEN innerCase(attrib[el].text)
    ELSE IF attrib[el].name # Absent /\ attrib[el].name # <<>>
    THEN attrib[el].name
    ELSE Absent

\* Node.identifier: the name when it is there and not empty, else the
\* innerCase of the text when it is there and not empty, else None (the
\* function ends without a return)
identifier(el) ==
    IF attrib[el].name # Absent /\ attrib[el].name # <<>>
    THEN attrib[el].name
    ELSE IF attrib[el].text # Absent /\ attrib[el].text # <<>>
    THEN innerCase(attrib[el].text)
    ELSE Absent

\* '/'.join(segments)
join(segments) ==
    LET upto[i \in 0 .. Len(segments)] ==
            IF i = 0 THEN <<>>
            ELSE IF i = 1 THEN segments[1]
            ELSE upto[i - 1] \o <<"/">> \o segments[i]
    IN  upto[Len(segments)]

\* ancestors.insert(0, Node.identifier(ancestor)) for each ancestor in turn
InsertAncestors(ancestors, rest) ==
    LET after[i \in 0 .. Len(rest)] ==
            IF i = 0 THEN ancestors
            ELSE <<identifier(rest[i])>> \o after[i - 1]
    IN  after[Len(rest)]

S_index_html == <<"/","i","n","d","e","x",".","h","t","m","l">>
S_html       == <<".","h","t","m","l">>

\* u'%s' % None
S_None == <<"N","o","n","e">>

\* the rest of Node.path once the list of ancestors is built: '/'.join
\* raises TypeError on a None in the list; self.name() is called again for
\* a node with a type, and None is formatted as 'None'
FormatPath(ancestors, is_index, own) ==
    IF \E i \in 1 .. Len(ancestors) : ancestors[i] \in Exceptions
    THEN ancestors[CHOOSE i \in 1 .. Len(ancestors) : ancestors[i] \in Exceptions]
    ELSE IF \E i \in 1 .. Len(ancestors) : ancestors[i] = Absent THEN TypeError
    ELSE IF is_index THEN join(ancestors) \o S_index_html
    ELSE IF own \in Exceptions THEN own
    ELSE join(ancestors) \o <<"/">> \o (IF own = Absent THEN S_None ELSE own) \o S_html

\* Node.path: the destination, or the exception it raises
path(el) ==
    LET is_index == attrib[el].type = Absent
        Own      == {identifier(el)}
        Lists    == {InsertAncestors(IF is_index THEN <<own>> ELSE <<>>,
                                     iterancestors(el)) : own \in Own}
    IN  CHOOSE p \in UNION {{FormatPath(ancestors, is_index, own) :
                                ancestors \in Lists} : own \in Own} : TRUE

\* str.lstrip('/')
lstrip(s) ==
    LET Kept(str) == {i \in 1 .. Len(str) : \E k \in 1 .. i : str[k] # "/"}
    IN  CHOOSE stripped \in
            {SubSeq(str, Len(str) - Cardinality(Kept(str)) + 1, Len(str)) : str \in {s}} :
            TRUE

\* safe_filename that leaves the leading slashes in place
safe_filename_Unstripped(filename) == filename

\* Node.safe_filename: the file Node.render opens
safe_filename(filename) == lstrip(filename)

\* the file OPML.render_root opens
RootIndexFile == <<"i","n","d","e","x",".","h","t","m","l">>

-----------------------------------------------------------------------------
(* The generator behind the listings.                                      *)

\* the test of iter_index_children without its skip_node half
Listed_RenderOnly(el) == render_node(el)

\* the test of iter_index_children
Listed(el) == render_node(el) /\ ~skip_node(el)

\* iter_index_children(el) before its first next()
NewGenerator(el) == [root |-> el, pos |-> el, exhausted |-> FALSE]

NoGenerator == [root |-> None, pos |-> None, exhausted |-> TRUE]

\* instead of an element: the test of iter_index_children raised
Raising == -3

\* the element the generator yields when resumed at c, None when the loop
\* over el.iterdescendants('outline') ends, Raising when skip_node raises
ResumeAt(root, c) ==
    LET from[d \in Nodes \cup {None}] ==
            IF d = None THEN None
            ELSE IF render_node(d) /\ skip_node_raises(d) THEN Raising
            ELSE IF Listed(d) THEN d
            ELSE from[NextDescendant(root, d)]
    IN  from[NextDescendant(root, c)]

\* everything iter_index_children(el) yields when it is run to its end
Listing(el) ==
    LET rest[c \in Nodes \cup {el}] ==
            LET child == ResumeAt(el, c)
            IN  IF child \in {None, Raising} THEN <<>>
                ELSE <<child>> \o rest[child]
    IN  rest[el]

-----------------------------------------------------------------------------
(* The text of a page: Node.body.                                         *)

S_rule    == <<"<","r","u","l","e">>
S_endrule == <<"<","/","r","u","l","e">>

\* '<p>' + text + '</p>'
Paragraph(text) == <<"<","p",">">> \o text \o <<"<","/","p",">">>

\* '<div class=sub>' and '</div>'
S_div_open  == <<"<","d","i","v"," ","c","l","a","s","s","=","s","u","b",">">>
S_div_close == <<"<","/","d","i","v",">">>

\* a stream of fragments that ends with an exception instead of a fragment
Raises(stream) == stream # <<>> /\ stream[Len(stream)] \in Exceptions

\* one round of the loop of _iterate with the rule test applied to the
\* element only: the children of a rule are still flattened
ElementFragments_RuleOnlySelf(element, inner) ==
    IF attrib[element].text = Absent THEN <<AttributeError>>
    ELSE IF startswith(attrib[element].text, S_rule)
             \/ startswith(attrib[element].text, S_endrule)
    THEN inner
    ELSE <<Paragraph(attrib[element].text)>> \o
         (IF len(element) > 0
          THEN <<S_div_open>> \o inner \o (IF Raises(inner) THEN <<>> ELSE <<S_div_close>>)
          ELSE <<>>)

\* one round of the loop of _iterate that closes a sub-group only when
\* something was yielded in it
ElementFragments_Unclosed(element, inner) ==
    IF attrib[element].text = Absent THEN <<AttributeError>>
    ELSE IF startswith(attrib[element].text, S_rule)
             \/ startswith(attrib[element].text, S_endrule)
    THEN <<>>
    ELSE <<Paragraph(attrib[element].text)>> \o
         (IF len(element) > 0
          THEN <<S_div_open>> \o inner \o (IF inner = <<>> \/ Raises(inner) THEN <<>> ELSE <<S_div_close>>)
          ELSE <<>>)

\* one round of the loop of _iterate: what it yields for element, given
\* what _iterate(element) yields; text.startswith raises on a missing text
ElementFragments(element, inner) ==
    IF attrib[element].text = Absent THEN <<AttributeError>>
    ELSE IF startswith(attrib[element].text, S_rule)
             \/ startswith(attrib[element].text, S_endrule)
    THEN <<>>
    ELSE <<Paragraph(attrib[element].text)>> \o
         (IF len(element) > 0
          THEN <<S_div_open>> \o inner \o (IF Raises(inner) THEN <<>> ELSE <<S_div_close>>)
          ELSE <<>>)

\* Node.body: the fragments _iterate(self.node) yields, in order
body(node) ==
    LET iterate[n \in Nodes] ==
            LET children == Children(n)
                upto[i \in 0 .. Len(children)] ==
                    IF i = 0 THEN <<>>
                    ELSE IF Raises(upto[i - 1]) THEN upto[i - 1]
                    ELSE upto[i - 1] \o
                             ElementFragments(children[i], iterate[children[i]])
            IN  upto[Len(children)]
    IN  iterate[node]

-----------------------------------------------------------------------------
(* The traversal.                                                          *)

\* the parent search that gives up at the first ancestor without a sibling
ParentSearch_OneLevel(p) ==
    IF p = Body THEN None ELSE getnext(p)

\* the parent search of Node.process: the next sibling of the nearest
\* ancestor that has one, None when the search lands on <body>
RECURSIVE ParentSearch(_)
ParentSearch(p) ==
    IF p = Body THEN None
    ELSE IF getnext(p) # None THEN getnext(p)
    ELSE ParentSearch(getparent(p))

\* the move that forgets the siblings of the node
NextNode_NoSibling(node) == ParentSearch(getparent(node))

\* the element Node.process moves on to after node, when it does not descend
NextNode(node) ==
    IF getnext(node) # None THEN getnext(node)
    ELSE ParentSearch(getparent(node))

\* Node.process returns None: every pending call returns
Return(f, r) ==
    /\ pc' = "done"
    /\ cur' = None
    /\ depth' = 0
    /\ files' = f
    /\ rendered' = r
    /\ fragments' = <<>>
    /\ entries' = <<>>
    /\ generators' = <<>>
    /\ UNCHANGED <<raised, visited, index_children, yielded>>

\* an exception nothing catches: the run ends with it
Raise(e, f, r) ==
    /\ pc' = "error"
    /\ raised' = e
    /\ files' = f
    /\ rendered' = r
    /\ UNCHANGED <<cur, visited, depth, index_children, yielded, fragments,
                   entries, generators>>

\* Node(el, self.opml): Node.__init__ and, from it, the call of Node.process
Construct(el, f, r) ==
    IF BaseFrames + depth + FramesPerVisit > RecursionLimit
    THEN Raise(RuntimeError, f, r)
    ELSE IF attrib[el].text = Absent
    THEN Raise(AttributeError, f, r)
    ELSE /\ pc' = "process"
         /\ cur' = el
         /\ visited' = Append(visited, el)
         /\ depth' = depth + FramesPerVisit
         /\ index_children' = NewGenerator(el)
         /\ yielded' = <<>>
         /\ fragments' = <<>>
         /\ entries' = <<>>
         /\ generators' = <<>>
         /\ files' = f
         /\ rendered' = r
         /\ UNCHANGED raised

\* the move without the parent search: the traversal ends at a last sibling
MoveOn_NoParentSearch(node, f, r) ==
    IF getnext(node) = None THEN Return(f, r)
    ELSE Construct(getnext(node), f, r)

\* the rest of Node.process after the rendering: lines 201-211
MoveOn(node, f, r) ==
    IF NextNode(node) = None THEN Return(f, r)
    ELSE Construct(NextNode(node), f, r)

Init ==
    /\ pc = "start"
    /\ raised = NoException
    /\ cur = None
    /\ visited = <<>>
    /\ rendered = <<>>
    /\ files = <<>>
    /\ root_renders = 0
    /\ depth = 0
    /\ index_children = NoGenerator
    /\ yielded = <<>>
    /\ fragments = <<>>
    /\ entries = <<>>
    /\ generators = <<>>

Documents(n, outlines) ==
    /\ parent \in [1 .. n -> 0 .. (n - 1)]
    /\ \A i \in 1 .. n : parent[i] < i
    /\ WellFormed
    /\ attrib \in [1 .. n -> outlines]

\* the renderings the environment can let fail: none, or the one of one
\* element (of <body> for the root index.html), either in the template or
\* when the opened file is written
Faults ==
    {NoFault} \cup [at : Nodes \cup {Body}, kind : {"template", "write"}]

\* OPML.__init__ without the assert
OPML_init_NoAssert ==
    /\ pc = "start"
    /\ pc' = "init"
    /\ UNCHANGED <<inputs, raised, cur, visited, rendered, files, root_renders,
                   depth, index_children, yielded, fragments, entries,
                   generators>>

\* OPML.__init__: the assert on the parsed body
OPML_init ==
    /\ pc = "start"
    /\ IF len(Body) = 0
       THEN Raise(AssertionError, files, rendered)
       ELSE /\ pc' = "init"
            /\ UNCHANGED <<raised, cur, visited, rendered, files, depth,
                           index_children, yielded, fragments, entries,
                           generators>>
    /\ UNCHANGED <<inputs, root_renders>>

\* OPML.render without the call of render_root
Render_NoRoot ==
    /\ pc = "init"
    /\ Construct(FirstChild(Body), files, rendered)
    /\ UNCHANGED <<inputs, root_renders>>

\* OPML.render up to the rendering of the root index.html
Render ==
    /\ pc = "init"
    /\ pc' = "root"
    /\ index_children' = NewGenerator(Body)
    /\ yielded' = <<>>
    /\ UNCHANGED <<inputs, raised, cur, visited, rendered, files, root_renders,
                   depth, fragments, entries, generators>>

\* next(self.index_children): the generator after the call
Advanced(gen) ==
    LET child == ResumeAt(gen.root, gen.pos)
    IN  IF child \in {None, Raising} THEN [gen EXCEPT !.exhausted = TRUE]
        ELSE [gen EXCEPT !.pos = child]

\* a Node that takes the generator another Node over the same element has
GeneratorFor_Shared(gens, el) ==
    IF \E i \in 1 .. Len(gens) : gens[i].root = el
    THEN CHOOSE i \in 1 .. Len(gens) : gens[i].root = el
    ELSE Len(gens) + 1

\* self.index_children = iter_index_children(node) in Node.__init__: the
\* generator of a new Node is a new one
GeneratorFor(gens, el) == Len(gens) + 1

\* Node(child, self.opml, process=False): the Nodes and generators after it;
\* a template iterates at most MaxEntries of the Nodes it is given
WithEntry(ents, gens, child) ==
    IF ~nested \/ Len(ents) >= MaxEntries
    THEN [entries |-> ents, generators |-> gens]
    ELSE [entries    |-> Append(ents, [gen |-> GeneratorFor(gens, child), out |-> <<>>]),
          generators |-> IF GeneratorFor(gens, child) > Len(gens)
                         THEN Append(gens, NewGenerator(child))
                         ELSE gens]

\* Node.next and Index.next, called by the template being rendered: on the
\* object being rendered (g = 0) or on a Node a listing returned
IndexNext ==
    /\ pc \in {"root", "render"}
    /\ \E g \in 0 .. Len(entries) :
         LET gen   == IF g = 0 THEN index_children ELSE generators[entries[g].gen]
             child == ResumeAt(gen.root, gen.pos)
             ents  == IF g = 0 \/ child \in {None, Raising} THEN entries
                      ELSE [entries EXCEPT ![g].out = Append(@, child)]
             gens  == IF g = 0 THEN generators
                      ELSE [generators EXCEPT ![entries[g].gen] = Advanced(gen)]
         IN  /\ ~gen.exhausted
             /\ index_children' = IF g = 0 THEN Advanced(gen) ELSE index_children
             /\ yielded' = IF g = 0 /\ child \notin {None, Raising}
                           THEN Append(yielded, child) ELSE yielded
             /\ IF child = Raising
                THEN pc' = "error" /\ raised' = AttributeError
                ELSE UNCHANGED <<pc, raised>>
             /\ entries' = IF child \in {None, Raising} THEN ents
                           ELSE WithEntry(ents, gens, child).entries
             /\ generators' = IF child \in {None, Raising} THEN gens
                              ELSE WithEntry(ents, gens, child).generators
    /\ UNCHANGED <<inputs, cur, visited, rendered, files, root_renders, depth,
                   fragments>>

\* a write that leaves an existing file as it is
Write_KeepExisting(fname, writer, fs) == fs @@ (fname :> writer)

\* with open(...) as fp: fp.write(...): the file holds what writer rendered
Write(fname, writer, fs) == (fname :> writer) @@ fs

\* OPML.render_root writes index.html; OPML.render goes on to Node(self.body[0])
RenderRoot ==
    /\ pc = "root"
    /\ IF fault.at = Body /\ fault.kind = "template"
       THEN Raise(TemplateError, files, rendered) /\ UNCHANGED root_renders
       ELSE IF fault.at = Body /\ fault.kind = "write"
       THEN /\ Raise(IOError, Write(RootIndexFile, Truncated, files), rendered)
            /\ UNCHANGED root_renders
       ELSE /\ Construct(FirstChild(Body), Write(RootIndexFile, Body, files), rendered)
            /\ root_renders' = root_renders + 1
    /\ UNCHANGED inputs

\* Node.process up to the call of the template in Node.render: the
\* classification and, for a node to render, self.safe_filename(self.path())
Process ==
    /\ pc = "process"
    /\ IF skip_node(cur) THEN MoveOn(cur, files, rendered)
       ELSE IF render_node(cur) \/ index_node(cur)
            THEN IF path(cur) \in Exceptions
                 THEN Raise(path(cur), files, rendered)
                 ELSE /\ pc' = "render"
                      /\ fragments' = body(cur)
                      /\ UNCHANGED <<raised, cur, visited, rendered, files, depth,
                                     index_children, yielded, entries, generators>>
            ELSE MoveOn(cur, files, rendered)
    /\ UNCHANGED <<inputs, root_renders>>

\* Node.render inside a try/except that drops the exception
RenderNode_Swallow ==
    /\ pc = "render"
    /\ LET fname == safe_filename(path(cur))
           f     == Write(fname, cur, files)
           r     == Append(rendered, [node |-> cur, fname |-> fname])
       IN  IF fault.at = cur
           THEN IF index_node(cur) THEN Construct(FirstChild(cur), files, rendered)
                ELSE MoveOn(cur, files, rendered)
           ELSE IF index_node(cur) THEN Construct(FirstChild(cur), f, r)
           ELSE MoveOn(cur, f, r)
    /\ UNCHANGED <<inputs, root_renders>>

\* the template returns and Node.render writes the file; Node.process moves
\* on.  A template that iterates node.body() to its end (iterates) fails
\* with the exception the stream ends with.
RenderNode ==
    /\ pc = "render"
    /\ \E iterates \in BOOLEAN :
       LET fname == safe_filename(path(cur))
           f     == Write(fname, cur, files)
           r     == Append(rendered, [node |-> cur, fname |-> fname])
       IN  IF iterates /\ Raises(fragments)
           THEN Raise(fragments[Len(fragments)], files, rendered)
           ELSE IF fault.at = cur /\ fault.kind = "template"
           THEN Raise(TemplateError, files, rendered)
           ELSE IF fault.at = cur /\ fault.kind = "write"
           THEN Raise(IOError, Write(fname, Truncated, files), rendered)
           ELSE IF index_node(cur) THEN Construct(FirstChild(cur), f, r)
           ELSE MoveOn(cur, f, r)
    /\ UNCHANGED <<inputs, root_renders>>

Next == OPML_init \/ Render \/ IndexNext \/ RenderRoot \/ Process \/ RenderNode

InitTraversal ==
    /\ Init
    /\ \E n \in 1 .. MaxNodes : Documents(n, TraversalOutlines)
    /\ fault = NoFault
    /\ nested = FALSE

InitPath ==
    /\ Init
    /\ \E n \in 1 .. MaxPathNodes : Documents(n, PathOutlines)
    /\ fault = NoFault
    /\ nested = FALSE

\* documents of up to MaxNodes outlines, classified every way
Spec == InitTraversal /\ [][Next]_vars

\* documents of up to MaxPathNodes outlines, with the texts, names and types
\* the paths depend on
SpecPath == InitPath /\ [][Next]_vars

InitLive ==
    /\ Init
    /\ \E n \in 1 .. MaxLiveNodes : Documents(n, TraversalOutlines)
    /\ fault = NoFault
    /\ nested = FALSE

\* documents of up to MaxLiveNodes outlines; the interpreter keeps running
\* the program while it has a step to take
SpecLive == InitLive /\ [][Next]_vars /\ WF_vars(Next)

InitErr ==
    /\ Init
    /\ \E n \in 0 .. MaxErrNodes : Documents(n, ErrorOutlines)
    /\ fault = NoFault
    /\ nested = FALSE

\* documents of up to MaxErrNodes outlines, the empty body among them, with
\* outlines that lack a text or a word in it
SpecErr == InitErr /\ [][Next]_vars

InitFault ==
    /\ Init
    /\ \E n \in 1 .. MaxFaultNodes : Documents(n, FaultOutlines)
    /\ fault \in Faults
    /\ nested = FALSE

\* documents of up to MaxFaultNodes outlines in an environment that lets at
\* most one rendering fail
SpecFault == InitFault /\ [][Next]_vars

InitList ==
    /\ Init
    /\ \E n \in 1 .. MaxListNodes : Documents(n, ListOutlines)
    /\ fault = NoFault
    /\ nested = TRUE

\* documents of up to MaxListNodes outlines rendered with templates that
\* iterate the nodes their listings give them
SpecList == InitList /\ [][Next]_vars

InitBody ==
    /\ Init
    /\ \E n \in 1 .. MaxBodyNodes : Documents(n, BodyOutlines)
    /\ fault = NoFault
    /\ nested = FALSE

\* documents of up to MaxBodyNodes outlines, rules among them
SpecBody == InitBody /\ [][Next]_vars

-----------------------------------------------------------------------------
(* The notions the properties are stated in (outline document, section 3   *)
(* of the specification), read off the attributes and the tree.            *)

IsSkip(n) ==
    \/ attrib[n].isComment = T_true
    \/ (attrib[n].text # <<>> /\ attrib[n].text[1] = "#")

IsRender(n) == attrib[n].type = T_outline

HasChildren(n) == \E c \in Nodes : parent[c] = n

IsIndex(n) == HasChildren(n) /\ ~IsRender(n)

IsPlain(n) == ~IsSkip(n) /\ ~IsRender(n) /\ ~IsIndex(n)

\* a is a proper ancestor of n (a may be the body)
RECURSIVE IsAncestor(_, _)
IsAncestor(a, n) ==
    /\ n # Body
    /\ (parent[n] = a \/ IsAncestor(a, parent[n]))

ProperAncestors(n) == {a \in Nodes : IsAncestor(a, n)}

\* n lies in the subtree of a Skip node (the Skip node itself included)
InSkipSubtree(n) == IsSkip(n) \/ \E a \in ProperAncestors(n) : IsSkip(a)

Count(s, x) == Cardinality({i \in 1 .. Len(s) : s[i] = x})

VisitedSet == {visited[i] : i \in 1 .. Len(visited)}

RenderedNodes == [i \in 1 .. Len(rendered) |-> rendered[i].node]

Least(S) == CHOOSE x \in S : \A y \in S : x <= y

LaterSiblings(n) == {m \in Nodes : parent[m] = parent[n] /\ m > n}

\* the next sibling of n or, when it has none, of its nearest ancestor that
\* has one; None when no ancestor below the body has one
RECURSIVE ResumePoint(_)
ResumePoint(n) ==
    IF n = Body THEN None
    ELSE IF LaterSiblings(n) # {} THEN Least(LaterSiblings(n))
    ELSE ResumePoint(parent[n])

\* the visit of visited[i] is over
VisitOver(i) == i < Len(visited) \/ pc = "done"

\* once the visit of visited[i] is over, the next element visited is the
\* resume point of visited[i], and the traversal is Done when there is none
AdvancedPast(i) ==
    VisitOver(i) =>
        IF ResumePoint(visited[i]) = None
        THEN i = Len(visited) /\ pc = "done"
        ELSE i < Len(visited) /\ visited[i + 1] = ResumePoint(visited[i])

\* everything written so far that a visit of n wrote
WritesOf(n) == {i \in 1 .. Len(rendered) : rendered[i].node = n}

-----------------------------------------------------------------------------
(* C1.  Coverage.                                                          *)

-----------------------------------------------------------------------------
(* C2.  Order.                                                             *)

\* the document of the scenario: one top-level node without a type that is
\* not marked Skip, whose children X and Y are the rest of the document
ScenarioB ==
    /\ Nodes = 1 .. 3
    /\ parent[2] = 1 /\ parent[3] = 1
    /\ attrib[1].type = Absent
    /\ ~IsSkip(1)

-----------------------------------------------------------------------------
(* C3.  Skip in traversal.                                                 *)

\* C3: for every visited Skip node, nothing is ever written for it or for a
\* descendant of it, no descendant of it is ever visited, and once its visit
\* is over the next node visited is its next sibling or the next sibling of
\* its nearest ancestor that has one (Done when there is none).
C3_SkipInTraversal ==
    \A i \in 1 .. Len(visited) :
        LET n == visited[i]
        IN  IsSkip(n) =>
                /\ \A m \in Nodes : (m = n \/ IsAncestor(n, m)) => WritesOf(m) = {}
                /\ \A p \in DOMAIN files : files[p] # n /\ ~IsAncestor(n, files[p])
                /\ \A m \in VisitedSet : ~IsAncestor(n, m)
                /\ ~(cur = n /\ pc = "render")
                /\ AdvancedPast(i)

\* a Skip node with a render type and a child, the last of its siblings, was
\* passed over and the traversal resumed at the next sibling of its parent
C3_Witness ==
    \E i \in 1 .. Len(visited) :
        /\ IsSkip(visited[i]) /\ IsRender(visited[i]) /\ HasChildren(visited[i])
        /\ LaterSiblings(visited[i]) = {}
        /\ i < Len(visited)
        /\ parent[visited[i + 1]] # parent[visited[i]]
        /\ pc = "done"

-----------------------------------------------------------------------------
(* C8.  Rendering matches classification.                                  *)

\* C8: a node whose visit is over was handed to the writer exactly once when
\* it is Render or Index and not Skip, and never when it is Plain or Skip;
\* nothing is written for a node before or without its visit; once the visit
\* of a Plain node is over the traversal has advanced past it.
C8_RenderingMatchesClassification ==
    /\ \A i \in 1 .. Len(visited) :
           LET n == visited[i]
           IN  /\ VisitOver(i) =>
                      Cardinality(WritesOf(n)) =
                          IF (IsRender(n) \/ IsIndex(n)) /\ ~IsSkip(n) THEN 1 ELSE 0
               /\ ~VisitOver(i) => WritesOf(n) = {}
               /\ IsPlain(n) => AdvancedPast(i)
    /\ \A n \in Nodes \ VisitedSet : WritesOf(n) = {}
    /\ \A i \in 1 .. Len(rendered) :
           /\ rendered[i].fname \in DOMAIN files
           /\ files[rendered[i].fname] \in Nodes

\* a finished traversal that rendered an Index node and a Render node and
\* advanced past a Plain node to a sibling
C8_Witness ==
    /\ pc = "done"
    /\ \E n \in Nodes : IsIndex(n) /\ ~IsSkip(n) /\ WritesOf(n) # {}
    /\ \E n \in Nodes : IsRender(n) /\ ~IsSkip(n) /\ WritesOf(n) # {}
    /\ \E i \in 1 .. Len(visited) : IsPlain(visited[i]) /\ i < Len(visited)

-----------------------------------------------------------------------------
(* C9.  Termination.                                                       *)

\* neither n nor any ancestor of n below the body has a next sibling
RECURSIVE NoSiblingUpToBody(_)
NoSiblingUpToBody(n) ==
    n = Body \/ (LaterSiblings(n) = {} /\ NoSiblingUpToBody(parent[n]))

\* the step ends the visit of cur without descending into it
LeavesCur ==
    /\ pc \in {"process", "render"}
    /\ pc' # "render"
    /\ ~(IsIndex(cur) /\ ~IsSkip(cur))

\* a step reaches Done exactly when it leaves a node such that neither the
\* node nor any of its ancestors below the body has a next sibling
DoneExactlyAtBoundary ==
    /\ (pc # "done" /\ pc' = "done") => (LeavesCur /\ NoSiblingUpToBody(cur))
    /\ (LeavesCur /\ NoSiblingUpToBody(cur)) => pc' = "done"
    /\ pc = "done" => pc' = "done"

\* the body is never visited (classified), rendered or path-mapped
BodyUntouched ==
    /\ cur # Body
    /\ Body \notin VisitedSet
    /\ \A i \in 1 .. Len(rendered) : rendered[i].node # Body

-----------------------------------------------------------------------------
(* C10.  Iterative traversal.                                              *)

\* C10 as stated: the number of pending calls of the traversal does not grow
\* with the number of nodes visited: it never exceeds the calls of one visit.
C10_PendingCallsBounded == depth <= FramesPerVisit

-----------------------------------------------------------------------------
(* C4.  Skip propagation into listings.                                    *)

\* C4 as stated: no generator, whatever its root, ever yields a Skip node or
\* a descendant of a Skip node.
C4_NoSkipSubtreeListed ==
    \A i \in 1 .. Len(yielded) : ~InSkipSubtree(yielded[i])

-----------------------------------------------------------------------------
(* C7.  Index Collector content and order.                                 *)

\* the strict descendants of root that are Render and not Skip, in document
\* order
RenderDescendants(root) ==
    SortedSeq({d \in Nodes : IsAncestor(root, d) /\ IsRender(d) /\ ~IsSkip(d)})

Depth(n) == Cardinality(ProperAncestors(n))

-----------------------------------------------------------------------------
(* C11.  Missing identifier.                                               *)

IsWordChar(c) == c \in Range(LowerCase) \cup Range(UpperCase) \cup Digits \cup {"_"}

\* n has no non-empty name and no usable text: the text is absent, empty or
\* without a word character
NoUsableIdentifier(n) ==
    /\ attrib[n].name \in {Absent, <<>>}
    /\ \/ attrib[n].text \in {Absent, <<>>}
       \/ \A i \in 1 .. Len(attrib[n].text) : ~IsWordChar(attrib[n].text[i])

\* the traversal asks for the identifier of n when it visits it
ToBeRendered(n) == (IsRender(n) \/ IsIndex(n)) /\ ~IsSkip(n)

\* C11 as stated: for every visited node that is to be rendered and has no
\* non-empty name and no usable text, identifier fails: it returns neither
\* null nor an empty slug, no file is ever written for the node, the node
\* never reaches its template, and the run ends with an error at that node.
C11_MissingIdentifier ==
    \A i \in 1 .. Len(visited) :
        LET n == visited[i]
        IN  (ToBeRendered(n) /\ NoUsableIdentifier(n)) =>
                /\ identifier(n) \in Exceptions
                /\ identifier(n) \notin {Absent, <<>>}
                /\ WritesOf(n) = {}
                /\ \A p \in DOMAIN files : files[p] # n
                /\ ~(cur = n /\ pc = "render")
                /\ VisitOver(i) => (pc = "error" /\ i = Len(visited))

-----------------------------------------------------------------------------
(* C12.  Identifier precedence.                                            *)

HasName(n) == attrib[n].name # Absent /\ attrib[n].name # <<>>

\* the ancestors of n below the body, oldest first
RECURSIVE AncestorList(_)
AncestorList(n) ==
    IF parent[n] = Body THEN <<>> ELSE Append(AncestorList(parent[n]), parent[n])

\* the segments of a destination: the parts between the "/"
RECURSIVE Segments(_)
Segments(s) ==
    IF \A i \in 1 .. Len(s) : s[i] # "/" THEN <<s>>
    ELSE LET cut == CHOOSE i \in 1 .. Len(s) :
                        s[i] = "/" /\ \A k \in 1 .. (i - 1) : s[k] # "/"
         IN  <<SubSeq(s, 1, cut - 1)>> \o Segments(SubSeq(s, cut + 1, Len(s)))

\* the slug of a node without a name, written out for the texts in use
TextSlug(n) ==
    IF attrib[n].text = TX_Hello THEN <<"h","e","l","l","o">>
    ELSE IF attrib[n].text = TX_HiAll THEN <<"h","i","A","l","l">>
    ELSE IF attrib[n].text = TX_Links THEN <<"l","i","n","k","s">>
    ELSE <<>>

\* C12: the identifier of a node with a non-empty name is that name, letter
\* for letter, whatever its text is; the identifier of a node with an absent
\* or empty name is the slug of its text; in every destination written, the
\* segment of each ancestor is its name when it has one and the slug of its
\* text otherwise, and the segment of a named node itself is its name.
C12_IdentifierPrecedence ==
    /\ \A n \in Nodes :
           identifier(n) = IF HasName(n) THEN attrib[n].name ELSE TextSlug(n)
    /\ \A i \in 1 .. Len(rendered) :
           LET n    == rendered[i].node
               anc  == AncestorList(n)
               segs == Segments(rendered[i].fname)
           IN  /\ Len(segs) > Len(anc)
               /\ \A k \in 1 .. Len(anc) :
                      segs[k] = IF HasName(anc[k]) THEN attrib[anc[k]].name
                                ELSE TextSlug(anc[k])
               /\ HasName(n) =>
                      segs[Len(anc) + 1] \in
                          {attrib[n].name, attrib[n].name \o <<".","h","t","m","l">>}

\* a finished traversal that wrote a node with a name and a text without a
\* word, below a parent with a name and a grandparent with an empty name
C12_Witness ==
    /\ pc = "done"
    /\ \E i \in 1 .. Len(rendered) :
           LET n == rendered[i].node
           IN  /\ attrib[n] = NamedMarksOutline
               /\ parent[n] # Body /\ attrib[parent[n]] = NamedOutline
               /\ parent[parent[n]] # Body
               /\ attrib[parent[parent[n]]] = EmptyNameOutline
               /\ rendered[i].fname =
                      <<"h","i","A","l","l","/">> \o NM_Intro \o <<"/">> \o
                          NM_Intro \o <<".","h","t","m","l">>

-----------------------------------------------------------------------------
(* C13.  Fail-fast.                                                        *)

\* the run has ended with a failure of the template or of the write
RenderFailed == pc = "error" /\ raised \in {TemplateError, IOError}

\* nothing happens after an error; the step that fails visits, classifies
\* and renders nothing, leaves every file in place and changes the content
\* of none but the one it had opened
FailFastStep ==
    /\ pc # "error"
    /\ (pc' = "error" /\ raised' \in {TemplateError, IOError}) =>
           /\ visited' = visited
           /\ rendered' = rendered
           /\ \A p \in DOMAIN files :
                  /\ p \in DOMAIN files'
                  /\ files'[p] # files[p] =>
                         /\ files'[p] = Truncated
                         /\ fault.kind = "write"
                         /\ p = IF fault.at = Body THEN RootIndexFile
                                ELSE safe_filename(path(fault.at))

\* a rendering that fails is the last thing the run does: the failing node
\* is the last one visited, nothing was rendered for it, and the run is not
\* Done; every file a node before it was rendered to is still there
AbortedAtFailure ==
    /\ \A i \in 1 .. Len(visited) :
           (visited[i] = fault.at /\ ToBeRendered(visited[i])) =>
               /\ i = Len(visited)
               /\ pc \in {"process", "render", "error"}
               /\ WritesOf(visited[i]) = {}
    /\ fault.at = Body => (visited = <<>> /\ rendered = <<>> /\ pc # "done")
    /\ RenderFailed =>
           /\ IF fault.at = Body THEN visited = <<>>
              ELSE visited # <<>> /\ visited[Len(visited)] = fault.at
           /\ \A i \in 1 .. Len(rendered) :
                  /\ rendered[i].node < fault.at
                  /\ rendered[i].fname \in DOMAIN files

\* C13: the first failure of a rendering or a write ends the run: no later
\* node is visited, classified, rendered or written, the failing node is not
\* tried again, and the files written before stay written.
C13_FailFast == [][FailFastStep]_vars /\ []AbortedAtFailure

\* a write failed after two nodes were rendered and before a node that was
\* still to be visited; the files of the two are in place
C13_Witness ==
    /\ RenderFailed /\ raised = IOError
    /\ Len(rendered) >= 2
    /\ \A i \in 1 .. Len(rendered) :
           /\ rendered[i].fname \in DOMAIN files
           /\ files[rendered[i].fname] \in Nodes
    /\ fault.at \in Nodes
    /\ ResumePoint(fault.at) # None

-----------------------------------------------------------------------------
(* C14.  Root listing first.                                               *)

\* the root listing page is written while nothing else has happened: no
\* node visited, no file written, the generator at hand rooted at the body;
\* it is written to index.html in the output directory itself
RootWrittenFirst ==
    root_renders' # root_renders =>
        /\ root_renders = 0 /\ root_renders' = 1
        /\ visited = <<>> /\ rendered = <<>> /\ files = <<>>
        /\ index_children.root = Body
        /\ DOMAIN files' = {RootIndexFile}
        /\ files'[RootIndexFile] = Body
        /\ \A i \in 1 .. Len(RootIndexFile) : RootIndexFile[i] # "/"

\* once a node is visited or a file of a node is written, the root listing
\* page has been written, once
RootWrittenBefore ==
    /\ root_renders <= 1
    /\ (visited # <<>> \/ rendered # <<>> \/ pc = "done") =>
           (root_renders = 1 /\ RootIndexFile \in DOMAIN files)
    /\ (\E p \in DOMAIN files : files[p] \in Nodes) => root_renders = 1

\* C14: the root listing page, made with the generator rooted at the body,
\* is written exactly once, to the output root, before the first node is
\* visited and before any file of a node is written.
C14_RootListingFirst == [][RootWrittenFirst]_vars /\ []RootWrittenBefore

\* a finished run that wrote the root listing page and then visited three
\* nodes and wrote two of them
C14_Witness ==
    /\ pc = "done"
    /\ root_renders = 1
    /\ files[RootIndexFile] = Body
    /\ Len(rendered) >= 2
    /\ Len(visited) >= 3

-----------------------------------------------------------------------------
(* C15.  Empty body.                                                       *)

EmptyBody == \A n \in Nodes : parent[n] # Body

\* the only step of a run on an empty body is the rejection
RejectedAtOnce == EmptyBody => (pc = "start" /\ pc' = "error" /\ raised' = AssertionError)

\* on an empty body the run is either not yet started or rejected, and
\* nothing was visited, listed, rendered or written, the root index.html
\* included; no other document is rejected this way
NothingDoneOnEmptyBody ==
    /\ EmptyBody =>
           /\ pc \in {"start", "error"}
           /\ pc = "error" => raised = AssertionError
           /\ visited = <<>> /\ rendered = <<>> /\ yielded = <<>>
           /\ files = <<>> /\ root_renders = 0
           /\ index_children = NoGenerator
    /\ raised = AssertionError => EmptyBody

\* C15: a document whose body has no children is rejected with a structural
\* error, once and before the traversal starts: no node is visited and no
\* file, the root listing page included, is written.
C15_EmptyBody == [][RejectedAtOnce]_vars /\ []NothingDoneOnEmptyBody

\* the run on the empty body has been rejected
C15_Witness ==
    /\ EmptyBody
    /\ pc = "error" /\ raised = AssertionError
    /\ files = <<>>

-----------------------------------------------------------------------------
(* C16.  Path collision.                                                   *)

\* a and b are sibling Render nodes with the same text and without a name,
\* a before b
CollidingSiblings(a, b) ==
    /\ a < b /\ parent[a] = parent[b]
    /\ IsRender(a) /\ IsRender(b)
    /\ attrib[a].text = attrib[b].text
    /\ ~HasName(a) /\ ~HasName(b)

\* the last write to the destination p
LastWrite(p) ==
    CHOOSE i \in 1 .. Len(rendered) :
        /\ rendered[i].fname = p
        /\ \A k \in 1 .. Len(rendered) : rendered[k].fname = p => k <= i

\* C16: two sibling Render nodes with the same text and no name have the
\* same destination; the run does not end in an error over it; each of the
\* two is written once when its visit is over, the earlier one first; a
\* file always holds the content of the last node written to it, so that
\* after both were written the file is not the earlier sibling's, and is the
\* later sibling's when the traversal is Done and no third node was written
\* to the same destination.
C16_PathCollision ==
    /\ pc # "error"
    /\ \A a, b \in Nodes :
           CollidingSiblings(a, b) =>
               /\ safe_filename(path(a)) = safe_filename(path(b))
               /\ \A i, j \in 1 .. Len(rendered) :
                      (rendered[i].node = a /\ rendered[j].node = b) =>
                          /\ i < j
                          /\ rendered[i].fname = rendered[j].fname
                          /\ files[rendered[i].fname] # a
               /\ (pc = "done" /\ a \in VisitedSet /\ ~IsSkip(a) /\ ~IsSkip(b)) =>
                      /\ Cardinality(WritesOf(a)) = 1
                      /\ Cardinality(WritesOf(b)) = 1
               /\ (pc = "done" /\ WritesOf(a) # {} /\ WritesOf(b) # {}
                     /\ \A i \in 1 .. Len(rendered) :
                            rendered[i].fname = safe_filename(path(b)) =>
                                rendered[i].node \in {a, b}) =>
                      files[safe_filename(path(b))] = b
    /\ \A p \in DOMAIN files :
           IF p = RootIndexFile THEN files[p] = Body
           ELSE /\ \E i \in 1 .. Len(rendered) : rendered[i].fname = p
                /\ files[p] = rendered[LastWrite(p)].node

\* a finished traversal that wrote two sibling Render nodes to one file,
\* which holds the later one
C16_Witness ==
    /\ pc = "done"
    /\ \E a, b \in Nodes :
           /\ CollidingSiblings(a, b)
           /\ WritesOf(a) # {} /\ WritesOf(b) # {}
           /\ files[safe_filename(path(a))] = b
    /\ Len(rendered) = 2
    /\ Cardinality(DOMAIN files) = 2

-----------------------------------------------------------------------------
(* C17.  Body flattening.                                                  *)

\* the text of n begins with a rule marker
IsRule(n) ==
    LET t == attrib[n].text
    IN  \/ Len(t) >= 5 /\ SubSeq(t, 1, 5) = <<"<","r","u","l","e">>
        \/ Len(t) >= 6 /\ SubSeq(t, 1, 6) = <<"<","/","r","u","l","e">>

\* d is a descendant of root that is not excluded: neither d nor any node
\* between root and d is a rule
Kept(root, d) ==
    /\ IsAncestor(root, d)
    /\ ~IsRule(d)
    /\ \A a \in ProperAncestors(d) : IsAncestor(root, a) => ~IsRule(a)

\* the last node, in document order, of the kept nodes in the subtree of a
LastKeptIn(root, a) ==
    CHOOSE d \in Nodes :
        /\ Kept(root, d) /\ (d = a \/ IsAncestor(a, d))
        /\ \A e \in Nodes :
               (Kept(root, e) /\ (e = a \/ IsAncestor(a, e))) => e <= d

\* the sub-groups that end after the fragment of d: those of d and of its
\* ancestors below root whose last kept node is d
GroupsEndingAt(root, d) ==
    {a \in Nodes : /\ a = d \/ IsAncestor(a, d)
                   /\ IsAncestor(root, a)
                   /\ HasChildren(a)
                   /\ LastKeptIn(root, a) = d}

\* the fragment of d, an open marker when d has children, and a close marker
\* for every sub-group that ends at d
PieceOf(root, d) ==
    <<Paragraph(attrib[d].text)>> \o
    (IF HasChildren(d) THEN <<S_div_open>> ELSE <<>>) \o
    [k \in 1 .. Cardinality(GroupsEndingAt(root, d)) |-> S_div_close]

RECURSIVE Pieces(_, _)
Pieces(root, ds) ==
    IF ds = <<>> THEN <<>>
    ELSE PieceOf(root, ds[1]) \o Pieces(root, Tail(ds))

\* the flattening of the descendants of root in depth-first pre-order
Flattening(root) == Pieces(root, SortedSeq({d \in Nodes : Kept(root, d)}))

\* C17: what body yields for the node being rendered is, for each
\* descendant that is not excluded, taken in document order, its text
\* fragment, followed by an open marker when it has children and, after the
\* last fragment of its subtree, by a close marker; a descendant is excluded
\* when it or a node between the rendered node and it begins with a rule
\* marker, and nothing is yielded for it.
C17_BodyFlattening ==
    pc = "render" => fragments = Flattening(cur)

\* the body of a node with two children: a rule that has a child of its
\* own, and after it a child that is kept; the one fragment is the latter's
C17_Witness ==
    /\ pc = "render"
    /\ \E r, k \in Nodes :
           /\ parent[r] = cur /\ IsRule(r)
           /\ \E c \in Nodes : parent[c] = r /\ ~IsRule(c)
           /\ parent[k] = cur /\ ~IsRule(k) /\ r < k
           /\ fragments = <<Paragraph(attrib[k].text)>>

-----------------------------------------------------------------------------
(* C20.  Balanced sub-group markers.                                       *)

Opens(s, k)  == Cardinality({i \in 1 .. k : s[i] = S_div_open})
Closes(s, k) == Cardinality({i \in 1 .. k : s[i] = S_div_close})

\* C20: in what body yields for the node being rendered, no initial part
\* has more close markers than open markers, the whole has as many of the
\* one as of the other, and the open marker of a descendant all of whose
\* children are excluded is followed at once by its close marker.
C20_BalancedMarkers ==
    pc = "render" =>
        /\ \A k \in 0 .. Len(fragments) : Opens(fragments, k) >= Closes(fragments, k)
        /\ Opens(fragments, Len(fragments)) = Closes(fragments, Len(fragments))
        /\ \A i \in 1 .. Len(fragments) :
               fragments[i] = S_div_open => i < Len(fragments)
        /\ LET kept == SortedSeq({d \in Nodes : Kept(cur, d)})
           IN  \A j \in 1 .. Len(kept) :
                   (/\ HasChildren(kept[j])
                    /\ \A c \in Nodes : parent[c] = kept[j] => IsRule(c)) =>
                       \E i \in 1 .. (Len(fragments) - 2) :
                           /\ fragments[i] = Paragraph(attrib[kept[j]].text)
                           /\ fragments[i + 1] = S_div_open
                           /\ fragments[i + 2] = S_div_close

\* the body of a node whose only child has only excluded children: a
\* fragment, an open marker and a close marker
C20_Witness ==
    /\ pc = "render"
    /\ \E d \in Nodes :
           /\ parent[d] = cur /\ ~IsRule(d) /\ HasChildren(d)
           /\ \A c \in Nodes : parent[c] = d => IsRule(c)
    /\ fragments = <<Paragraph(TX_Hello), S_div_open, S_div_close>>

-----------------------------------------------------------------------------
(* C18.  Collector independence.                                           *)

\* the collectors alive: 0 is the one of the object being rendered, k > 0
\* the one of the k-th Node a listing returned
RootOf(k)      == IF k = 0 THEN index_children.root ELSE generators[entries[k].gen].root
OutputOf(k)    == IF k = 0 THEN yielded ELSE entries[k].out
ExhaustedOf(k) ==
    IF k = 0 THEN index_children.exhausted ELSE generators[entries[k].gen].exhausted

\* each render context has a collector of its own, and what a collector
\* has yielded is an initial part of the listing of its root, all of it once
\* the collector is exhausted, whatever the other collectors have yielded
OwnFreshCollectors ==
    /\ \A i, j \in 1 .. Len(entries) : i # j => entries[i].gen # entries[j].gen
    /\ \A k \in 1 .. Len(entries) : entries[k].gen \in 1 .. Len(generators)
    /\ \A k \in 0 .. Len(entries) :
           RootOf(k) # None =>
               LET all == RenderDescendants(RootOf(k))
                   out == OutputOf(k)
               IN  /\ Len(out) <= Len(all)
                   /\ out = SubSeq(all, 1, Len(out))
                   /\ ExhaustedOf(k) => out = all

\* a step within one rendering advances at most one collector and leaves
\* the others as they are; an exhausted collector stays exhausted and
\* yields nothing more; a collector starts with nothing yielded
OneCollectorAdvances ==
    (pc' = pc /\ pc \in {"root", "render"}) =>
        /\ Len(entries') >= Len(entries)
        /\ Cardinality({k \in 0 .. Len(entries) :
                            \/ OutputOf(k)' # OutputOf(k)
                            \/ ExhaustedOf(k)' # ExhaustedOf(k)}) <= 1
        /\ \A k \in 0 .. Len(entries) :
               /\ RootOf(k)' = RootOf(k)
               /\ ExhaustedOf(k) => (ExhaustedOf(k)' /\ OutputOf(k)' = OutputOf(k))
               /\ Len(OutputOf(k)') >= Len(OutputOf(k))
        /\ \A k \in (Len(entries) + 1) .. Len(entries') :
               entries'[k].out = <<>> /\ ~generators'[entries'[k].gen].exhausted

\* C18: every render context has its own, new collector; a collector yields
\* the listing of its root once, in one pass, and nothing after it is
\* exhausted; advancing or exhausting one collector changes neither what
\* another has yielded nor what it is still to yield, also when the other
\* is over the same subtree.
C18_CollectorIndependence == [][OneCollectorAdvances]_vars /\ []OwnFreshCollectors

\* two collectors over the same subtree, one exhausted after yielding a
\* node and the other not yet advanced, next to a third over another root
C18_Witness ==
    \E i, j, k \in 1 .. Len(entries) :
        /\ i # j
        /\ RootOf(i) = RootOf(j) /\ RootOf(k) # RootOf(i)
        /\ ExhaustedOf(i) /\ OutputOf(i) # <<>>
        /\ ~ExhaustedOf(j) /\ OutputOf(j) = <<>>
        /\ ~index_children.exhausted

-----------------------------------------------------------------------------
(* C19.  No dangling listing entries.                                      *)

\* the roots of the listings the run has made pages of: the body and the
\* Index nodes that were rendered
ListingRoots ==
    {Body} \cup {n \in Nodes : IsIndex(n) /\ WritesOf(n) # {}}

\* C19 as stated: when the traversal is Done, every node that the generator
\* of the body or of a rendered Index node yields has been rendered: a file
\* was written for it at its destination.
C19_NoDanglingEntries ==
    pc = "done" =>
        \A root \in ListingRoots :
            \A k \in 1 .. Len(Listing(root)) :
                LET d == Listing(root)[k]
                IN  /\ \E i \in 1 .. Len(rendered) :
                           /\ rendered[i].node = d
                           /\ rendered[i].fname = safe_filename(path(d))
                    /\ safe_filename(path(d)) \in DOMAIN files

-----------------------------------------------------------------------------
(* C5, C6.  Destination paths.                                            *)

\* the identifiers of the ancestors of n below the body, oldest first
RECURSIVE AncestorIds(_)
AncestorIds(n) ==
    IF parent[n] = Body THEN <<>>
    ELSE Append(AncestorIds(parent[n]), identifier(parent[n]))

\* the segments joined with "/"
RECURSIVE Slashed(_)
Slashed(segs) ==
    IF segs = <<>> THEN <<>>
    ELSE IF Len(segs) = 1 THEN segs[1]
    ELSE segs[1] \o <<"/">> \o Slashed(Tail(segs))

IndexPath(n) ==
    Slashed(Append(AncestorIds(n), identifier(n))) \o
        <<"/","i","n","d","e","x",".","h","t","m","l">>

RenderPath(n) ==
    IF AncestorIds(n) = <<>> THEN identifier(n) \o <<".","h","t","m","l">>
    ELSE Slashed(AncestorIds(n)) \o <<"/">> \o identifier(n) \o <<".","h","t","m","l">>

\* C5 as stated: every node rendered as an Index node (it has a child and
\* its type is not a render type) is written to the identifiers of its
\* ancestors and its own, joined with "/", followed by "/index.html".
C5_IndexPath ==
    \A i \in 1 .. Len(rendered) :
        IsIndex(rendered[i].node) => rendered[i].fname = IndexPath(rendered[i].node)

\* the document of the scenario: a single top-level node with type="outline"
\* and text="Hello", without children
ScenarioA ==
    /\ Nodes = {1}
    /\ attrib[1] = RenderOutline

F_hello_html == <<"h","e","l","l","o",".","h","t","m","l">>

\* C6: every Render node that is rendered is written to the identifiers of
\* its ancestors joined with "/", then "/", its own identifier and ".html",
\* without the leading "/" when it has no ancestors; in the scenario the
\* traversal writes hello.html and no other file than the root listing.
C6_RenderPath ==
    /\ \A i \in 1 .. Len(rendered) :
           IsRender(rendered[i].node) =>
               rendered[i].fname = RenderPath(rendered[i].node)
    /\ (ScenarioA /\ pc = "done") =>
           /\ DOMAIN files = {RootIndexFile, F_hello_html}
           /\ files[F_hello_html] = 1

\* a finished traversal that wrote a Render node below an Index node and a
\* top-level Render node with the text Hello
C6_Witness ==
    /\ pc = "done"
    /\ \E i \in 1 .. Len(rendered) :
           IsRender(rendered[i].node) /\ parent[rendered[i].node] # Body
    /\ \E i \in 1 .. Len(rendered) :
           /\ IsRender(rendered[i].node) /\ parent[rendered[i].node] = Body
           /\ rendered[i].fname = F_hello_html

====
